---- MODULE Spec2Model ----
(***************************************************************************)
(* Model of Session.cpp: the Clock interface and its implementations       *)
(* (TimeClock, TenMinuteClock, MockClock<Length>), the Session class that   *)
(* measures elapsed seconds through an injected Clock, the demonstration    *)
(* program main(), and SessionReport::displayTime.                          *)
(*                                                                         *)
(* Wall-clock time is counted in ticks, TicksPerSec ticks to the second, so *)
(* that the sub-second position of an instant is visible although           *)
(* std::time() reports whole seconds only.                                  *)
(***************************************************************************)
EXTENDS Integers, Sequences, FiniteSets, TLC

\* ---------------------------------------------------------------- bounds

\* resolution of the modelled wall clock: ticks per second
TicksPerSec == 4
\* the wall clock of the API specification stops advancing at this tick
MaxTick == 9
\* most stop() calls made on one Session in the API specification
MaxStops == 2
\* most extra ticks a sleep() overshoots its requested duration by
MaxJitter == 2
\* the tolerance eps of the elapsed-time range, in ticks (below one second)
EpsTicks == 2
\* displayTime is applied to every input from 0 to Limit - 1 + BeyondLimit
BeyondLimit == 3

\* the sessions of the API specification
Sessions == {"s1", "s2"}
\* the template arguments MockClock<Length> is instantiated with
MockLengths == {-1, 2, 10 * 60}
\* largest whole second the API specification's wall clock reaches
MaxSec == MaxTick \div TicksPerSec
\* the values an indeterminate std::time_t, or the result of a call through
\* a dangling reference, may turn out to be
TimeValues == -1 .. MaxSec
\* the timestamps some other implementation of Clock returns
OtherReadings == {0, 1}
\* 100 hours, the first input whose hours field needs three digits
Limit == 100 * 3600

VARIABLES
    now,      \* wall-clock time, in ticks
    sess,     \* Session objects: their clock reference, start_time, stop_time
    alive,    \* per Session: is the Clock object it refers to within its lifetime
    hist,     \* per Session: history of the calls made on it
    crashed,  \* the process died in undefined behaviour
    pc,       \* position of main(); "api" and "fmt" outside main()
    arg,      \* displayTime's argument
    out,      \* displayTime's result, a sequence of characters
    ctor_at,  \* the instant (tick) the timed Session was constructed at
    stop_at   \* the instant (tick) of the timed Session's latest stop()

vars == <<now, sess, alive, hist, crashed, pc, arg, out, ctor_at, stop_at>>

\* ---------------------------------------------------------------- clocks

NoClock == [kind |-> "none", Length |-> 0]
TheTimeClock == [kind |-> "TimeClock", Length |-> 0]
TheTenMinuteClock == [kind |-> "TenMinuteClock", Length |-> 0]
TheMockClock(Length) == [kind |-> "MockClock", Length |-> Length]
\* some other implementation of the Clock interface: any readings
TheOtherClock == [kind |-> "OtherClock", Length |-> 0]

\* the named Clock objects a caller passes to Session's constructor
ClockObjects ==
    {TheTimeClock, TheTenMinuteClock, TheOtherClock}
        \cup {TheMockClock(L) : L \in MockLengths}

\* std::time(nullptr): whole seconds of the wall clock
TimeClock_stop == now \div TicksPerSec

TimeClock_start == TimeClock_stop

TenMinuteClock_start == 0

TenMinuteClock_stop == 60 * 10

MockClock_start(Length) == 0

MockClock_stop_wall(Length) == now \div TicksPerSec

MockClock_stop(Length) == Length

\* virtual dispatch of clock.start(): the values the call may return
Clock_start(c) ==
    CASE c.kind = "TimeClock" -> {TimeClock_start}
      [] c.kind = "TenMinuteClock" -> {TenMinuteClock_start}
      [] c.kind = "MockClock" -> {MockClock_start(c.Length)}
      [] OTHER -> OtherReadings

\* virtual dispatch of clock.stop(): the values the call may return
Clock_stop(c) ==
    CASE c.kind = "TimeClock" -> {TimeClock_stop}
      [] c.kind = "TenMinuteClock" -> {TenMinuteClock_stop}
      [] c.kind = "MockClock" -> {MockClock_stop(c.Length)}
      [] OTHER -> OtherReadings

\* --------------------------------------------------------------- Session

\* a Session object that has not been constructed
NoSession == [clock |-> NoClock, start_time |-> 0, stop_time |-> 0]

NoHist ==
    [nstops |-> 0, lastRet |-> 0, waited |-> FALSE,
     read |-> FALSE, ret |-> 0]

Constructed(i) == sess[i].clock # NoClock

\* stop_time has been assigned: before the first stop() it is indeterminate
StopTimeSet(i) == hist[i].nstops > 0

\* Session::Session: clock(clock), start_time(clock.start()); stop_time is
\* left uninitialized (its field here is a placeholder until stop())
Session_ctor(c, t) == [clock |-> c, start_time |-> t, stop_time |-> 0]

Session_stop_firstWins(s, t) ==
    [s EXCEPT !.stop_time = IF s.stop_time # 0 THEN s.stop_time ELSE t]

Session_stop_setsStart(s, t) == [s EXCEPT !.start_time = t]

\* Session::stop: stop_time = clock.stop(), t being what clock.stop()
\* returned
Session_stop(s, t) == [s EXCEPT !.stop_time = t]

Session_seconds_clamped(s) ==
    IF s.stop_time < s.start_time THEN 0 ELSE s.stop_time - s.start_time

\* Session::seconds
Session_seconds(s) == s.stop_time - s.start_time

StoreStopped_shared(i, s) ==
    [j \in Sessions |->
        IF j = i THEN s
        ELSE IF Constructed(j) THEN [sess[j] EXCEPT !.stop_time = s.stop_time]
        ELSE sess[j]]

\* stop() assigns to the members of the Session it is called on
StoreStopped(i, s) == [sess EXCEPT ![i] = s]

\* what clock.stop() may return through Session i's reference: the clock's
\* own reading while the Clock object lives, anything once it is destroyed
StopReadings(i) ==
    IF alive[i] THEN Clock_stop(sess[i].clock) ELSE TimeValues \cup {TimeClock_stop}

\* what seconds() may return: stop_time - start_time, stop_time being any
\* value while it is indeterminate
SecondsReadings(i) ==
    IF StopTimeSet(i) THEN {Session_seconds(sess[i])}
    ELSE {Session_seconds([sess[i] EXCEPT !.stop_time = g]) : g \in TimeValues}

\* Session s(c): c is a named Clock object that outlives the Session
DoConstruct(i, c) ==
    /\ ~Constructed(i)
    /\ \E t \in Clock_start(c) :
          sess' = [sess EXCEPT ![i] = Session_ctor(c, t)]
    /\ alive' = [alive EXCEPT ![i] = TRUE]
    /\ hist' = [hist EXCEPT ![i] = NoHist]
    /\ UNCHANGED crashed

\* Session s: the default argument TimeClock() is a temporary of the
\* declaration; it is destroyed when the declaration ends, and the Session
\* keeps the reference
DoConstructDefault(i) ==
    /\ ~Constructed(i)
    /\ sess' = [sess EXCEPT ![i] = Session_ctor(TheTimeClock, TimeClock_start)]
    /\ alive' = [alive EXCEPT ![i] = FALSE]
    /\ hist' = [hist EXCEPT ![i] = NoHist]
    /\ UNCHANGED crashed

\* s.stop() returning
DoStop(i) ==
    /\ Constructed(i)
    /\ \E t \in StopReadings(i) :
          /\ sess' = StoreStopped(i, Session_stop(sess[i], t))
          /\ hist' = [hist EXCEPT ![i] =
                        [@ EXCEPT !.nstops = @ + 1, !.lastRet = t,
                                  !.read = FALSE, !.ret = 0]]
    /\ UNCHANGED <<alive, crashed>>

\* s.stop() through a reference to a destroyed Clock: the virtual call may
\* also end the process
DoStopCrash(i) ==
    /\ Constructed(i)
    /\ ~alive[i]
    /\ crashed' = TRUE
    /\ UNCHANGED <<sess, alive, hist>>

\* s.seconds() returning v
DoSeconds(i, v) ==
    /\ Constructed(i)
    /\ v \in SecondsReadings(i)
    /\ hist' = [hist EXCEPT ![i] = [@ EXCEPT !.read = TRUE, !.ret = v]]
    /\ UNCHANGED <<sess, alive, crashed>>

\* the Session, and a Clock declared beside it, go out of scope
DoScopeExit(i) ==
    /\ Constructed(i)
    /\ sess' = [sess EXCEPT ![i] = NoSession]
    /\ alive' = [alive EXCEPT ![i] = FALSE]
    /\ hist' = [hist EXCEPT ![i] = NoHist]
    /\ UNCHANGED crashed

\* ------------------------------------------------- the API specification

Init ==
    /\ now = 0
    /\ sess = [i \in Sessions |-> NoSession]
    /\ alive = [i \in Sessions |-> FALSE]
    /\ hist = [i \in Sessions |-> NoHist]
    /\ crashed = FALSE
    /\ pc = "api"
    /\ arg = 0
    /\ out = << >>
    /\ ctor_at = 0
    /\ stop_at = 0

\* wall-clock time passes
Tick ==
    /\ pc \in {"api", "timed"} /\ ~crashed
    /\ now < MaxTick
    /\ now' = now + 1
    /\ hist' = [i \in Sessions |->
                  IF Constructed(i) /\ ~StopTimeSet(i)
                  THEN [hist[i] EXCEPT !.waited = TRUE] ELSE hist[i]]
    /\ UNCHANGED <<sess, alive, crashed, pc, arg, out, ctor_at, stop_at>>

Construct(i, c) ==
    /\ pc = "api" /\ ~crashed
    /\ DoConstruct(i, c)
    /\ UNCHANGED <<now, pc, arg, out, ctor_at, stop_at>>

ConstructDefault(i) ==
    /\ pc = "api" /\ ~crashed
    /\ DoConstructDefault(i)
    /\ UNCHANGED <<now, pc, arg, out, ctor_at, stop_at>>

Stop(i) ==
    /\ pc = "api" /\ ~crashed
    /\ hist[i].nstops < MaxStops
    /\ DoStop(i)
    /\ UNCHANGED <<now, pc, arg, out, ctor_at, stop_at>>

StopCrash(i) ==
    /\ pc = "api" /\ ~crashed
    /\ hist[i].nstops < MaxStops
    /\ DoStopCrash(i)
    /\ UNCHANGED <<now, pc, arg, out, ctor_at, stop_at>>

Seconds(i) ==
    /\ pc = "api" /\ ~crashed
    /\ \E v \in SecondsReadings(i) : DoSeconds(i, v)
    /\ UNCHANGED <<now, pc, arg, out, ctor_at, stop_at>>

Next ==
    \/ Tick
    \/ \E i \in Sessions, c \in ClockObjects : Construct(i, c)
    \/ \E i \in Sessions : ConstructDefault(i)
    \/ \E i \in Sessions : Stop(i)
    \/ \E i \in Sessions : StopCrash(i)
    \/ \E i \in Sessions : Seconds(i)

Spec == Init /\ [][Next]_vars

\* ------------------------------------------- SessionReport::displayTime

DigitChars == <<"0", "1", "2", "3", "4", "5", "6", "7", "8", "9">>

\* integer division and remainder as C++ computes them (toward zero)
CDiv(a, b) == IF a >= 0 THEN a \div b ELSE -((-a) \div b)

CMod(a, b) == a - b * CDiv(a, b)

RECURSIVE Decimal(_)
\* the decimal digits of n >= 0
Decimal(n) ==
    IF n < 10 THEN <<DigitChars[n + 1]>>
    ELSE Decimal(n \div 10) \o <<DigitChars[(n % 10) + 1]>>

\* a field printed at width 2 with fill character '0'
Pad2(n) ==
    IF n < 0 THEN <<"-">> \o Decimal(-n)
    ELSE IF n < 10 THEN <<"0">> \o Decimal(n)
    ELSE Decimal(n)

displayTime_minutesOfDay(s) ==
    Pad2(CDiv(s, 3600)) \o <<":">> \o Pad2(CDiv(s, 60)) \o <<":">> \o Pad2(CMod(s, 60))

displayTime(s) ==
    Pad2(CDiv(s, 3600)) \o <<":">> \o Pad2(CDiv(CMod(s, 3600), 60))
        \o <<":">> \o Pad2(CMod(s, 60))

\* the string literals main() compares against
Lit_00_00_02 == <<"0", "0", ":", "0", "0", ":", "0", "2">>

Lit_00_10_00 == <<"0", "0", ":", "1", "0", ":", "0", "0">>

\* ------------------------------------------------------------- main()

\* the Session s of the scope main() is in
S == "s1"

\* sleep(t): std::this_thread::sleep_for blocks for at least t seconds
sleep(t) ==
    \E j \in 0 .. MaxJitter : now' = now + t * TicksPerSec + j

InitMain ==
    /\ now \in 0 .. (TicksPerSec - 1)
    /\ sess = [i \in Sessions |-> NoSession]
    /\ alive = [i \in Sessions |-> FALSE]
    /\ hist = [i \in Sessions |-> NoHist]
    /\ crashed = FALSE
    /\ pc = "L93"
    /\ arg = 0
    /\ out = << >>
    /\ ctor_at = 0
    /\ stop_at = 0

\* line 93: Session s;
Main_L93 ==
    /\ pc = "L93"
    /\ DoConstructDefault(S)
    /\ pc' = "L94"
    /\ UNCHANGED <<now, arg, out, ctor_at, stop_at>>

\* line 94: sleep(2);
Main_L94 ==
    /\ pc = "L94"
    /\ sleep(2)
    /\ pc' = "L95"
    /\ UNCHANGED <<sess, alive, hist, crashed, arg, out, ctor_at, stop_at>>

\* lines 95, 103, 111: s.stop();
Main_stop(at, to) ==
    /\ pc = at
    /\ \/ DoStop(S) /\ pc' = to
       \/ DoStopCrash(S) /\ pc' = "crashed"
    /\ UNCHANGED <<now, arg, out, ctor_at, stop_at>>

\* lines 96, 104, 112: assert(SessionReport::displayTime(s.seconds()) == lit);
Main_assert(at, lit, to) ==
    /\ pc = at
    /\ \E v \in SecondsReadings(S) :
          /\ DoSeconds(S, v)
          /\ arg' = v
          /\ out' = displayTime(v)
          /\ pc' = IF displayTime(v) = lit THEN to ELSE "aborted"
    /\ UNCHANGED <<now, ctor_at, stop_at>>

\* lines 97, 105, 113: the scope ends
Main_scopeExit(at, to) ==
    /\ pc = at
    /\ DoScopeExit(S)
    /\ pc' = to
    /\ UNCHANGED <<now, arg, out, ctor_at, stop_at>>

\* lines 101-102 and 109-110: a named stub clock; Session s(clock);
Main_construct(at, c, to) ==
    /\ pc = at
    /\ DoConstruct(S, c)
    /\ pc' = to
    /\ UNCHANGED <<now, arg, out, ctor_at, stop_at>>

\* line 115: return 0;
Main_L115 ==
    /\ pc = "L115"
    /\ pc' = "done"
    /\ UNCHANGED <<now, sess, alive, hist, crashed, arg, out, ctor_at, stop_at>>

NextMain ==
    \/ Main_L93
    \/ Main_L94
    \/ Main_stop("L95", "L96")
    \/ Main_assert("L96", Lit_00_00_02, "L97")
    \/ Main_scopeExit("L97", "L102")
    \/ Main_construct("L102", TheTenMinuteClock, "L103")
    \/ Main_stop("L103", "L104")
    \/ Main_assert("L104", Lit_00_10_00, "L105")
    \/ Main_scopeExit("L105", "L110")
    \/ Main_construct("L110", TheMockClock(10 * 60), "L111")
    \/ Main_stop("L111", "L112")
    \/ Main_assert("L112", Lit_00_10_00, "L113")
    \/ Main_scopeExit("L113", "L115")
    \/ Main_L115

SpecMain == InitMain /\ [][NextMain]_vars

\* ------------------------------------- a timed Session on the real clock

InitTimed ==
    /\ now = 0
    /\ sess = [i \in Sessions |-> NoSession]
    /\ alive = [i \in Sessions |-> FALSE]
    /\ hist = [i \in Sessions |-> NoHist]
    /\ crashed = FALSE
    /\ pc = "timed"
    /\ arg = 0
    /\ out = << >>
    /\ ctor_at = 0
    /\ stop_at = 0

\* TimeClock clock; Session s(clock); at the instant now
TimedConstruct ==
    /\ pc = "timed"
    /\ DoConstruct(S, TheTimeClock)
    /\ ctor_at' = now
    /\ UNCHANGED <<now, pc, arg, out, stop_at>>

\* s.stop(); at the instant now
TimedStop ==
    /\ pc = "timed"
    /\ hist[S].nstops < MaxStops
    /\ DoStop(S)
    /\ stop_at' = now
    /\ UNCHANGED <<now, pc, arg, out, ctor_at>>

\* s.seconds();
TimedSeconds ==
    /\ pc = "timed"
    /\ \E v \in SecondsReadings(S) : DoSeconds(S, v)
    /\ UNCHANGED <<now, pc, arg, out, ctor_at, stop_at>>

NextTimed ==
    \/ Tick
    \/ TimedConstruct
    \/ TimedStop
    \/ TimedSeconds

SpecTimed == InitTimed /\ [][NextTimed]_vars

\* ------------------------------------------- displayTime on every input

InitFmt ==
    /\ now = 0
    /\ sess = [i \in Sessions |-> NoSession]
    /\ alive = [i \in Sessions |-> FALSE]
    /\ hist = [i \in Sessions |-> NoHist]
    /\ crashed = FALSE
    /\ pc = "fmt"
    /\ arg \in 0 .. (Limit - 1 + BeyondLimit)
    /\ out = << >>
    /\ ctor_at = 0
    /\ stop_at = 0

\* out = SessionReport::displayTime(arg)
Display ==
    /\ pc = "fmt"
    /\ out = << >>
    /\ out' = displayTime(arg)
    /\ UNCHANGED <<now, sess, alive, hist, crashed, pc, arg, ctor_at, stop_at>>

SpecFmt == InitFmt /\ [][Display]_vars

\* ----------------------------------------------------------- the claims

IsStub(c) == c.kind \in {"TenMinuteClock", "MockClock"}

\* the fixed constant L a stub clock is configured with
StubLength(c) == IF c.kind = "TenMinuteClock" THEN 600 ELSE c.Length

\* Session i was constructed on a stub clock and has been stopped
StubStopped(i) == Constructed(i) /\ IsStub(sess[i].clock) /\ StopTimeSet(i)

\* C1: a Session constructed on a stub clock (start() = 0, stop() = L)
\* reports seconds() = L once stop() has been called: its elapsed time is L,
\* and every value seconds() returned since is L, however much wall-clock
\* time passed between construction and stop().
C1_StubReportsLength ==
    \A i \in Sessions :
        StubStopped(i) =>
            /\ sess[i].start_time = 0
            /\ Session_seconds(sess[i]) = StubLength(sess[i].clock)
            /\ hist[i].read => hist[i].ret = StubLength(sess[i].clock)

\* a ten-minute Session stopped after wall-clock time passed, read as 600
C1_Witness ==
    \E i \in Sessions :
        /\ StubStopped(i) /\ hist[i].waited /\ hist[i].read
        /\ hist[i].ret = 600 /\ now >= TicksPerSec

\* C2: a Session on the real clock, stopped a real delay of D seconds plus
\* a jitter below the tolerance eps after its construction, has seconds()
\* in [D, D + eps], eps being below one second.
C2_ElapsedWithinTolerance ==
    (Constructed(S) /\ StopTimeSet(S)) =>
        \A D \in 1 .. MaxSec :
            LET elapsed == stop_at - ctor_at
            IN  (D * TicksPerSec <= elapsed
                    /\ elapsed < D * TicksPerSec + EpsTicks) =>
                  /\ Session_seconds(sess[S]) >= D
                  /\ Session_seconds(sess[S]) * TicksPerSec
                        <= D * TicksPerSec + EpsTicks

\* C3: in main()'s first scenario the Session stopped after sleep(2) has
\* seconds() = 2, rendered "00:00:02", so the assertion of line 96 holds;
\* stated for the runs in which stop() read the real clock
C3_TwoSecondAssertionHolds ==
    (pc = "L96" /\ sess[S].stop_time = TimeClock_stop) =>
        /\ Session_seconds(sess[S]) = 2
        /\ displayTime(Session_seconds(sess[S])) = Lit_00_00_02

\* a call on Session i took effect in this step: its members or the record
\* of the calls made on it changed (the passing of time is no call)
Touched(i) == sess'[i] # sess[i] \/ (now' = now /\ hist'[i] # hist[i])

\* C4: two Sessions on stub clocks of different lengths each report their
\* own length, and a construct, stop() or seconds() on one Session leaves
\* the other Session's members and its last reported value as they were.
C4_SessionsIndependent ==
    [][\A i, j \in Sessions :
        i # j =>
          /\ (StubStopped(i)' /\ StubStopped(j)'
                /\ StubLength(sess'[i].clock) # StubLength(sess'[j].clock)) =>
               /\ Session_seconds(sess'[i]) = StubLength(sess'[i].clock)
               /\ Session_seconds(sess'[j]) = StubLength(sess'[j].clock)
          /\ Touched(i) =>
               /\ sess'[j] = sess[j]
               /\ Session_seconds(sess'[j]) = Session_seconds(sess[j])
               /\ hist'[j].ret = hist[j].ret]_vars

\* both Sessions stopped and read, one reporting 600 and the other 2
C4_Witness ==
    /\ StubStopped("s1") /\ hist["s1"].read /\ hist["s1"].ret = 600
    /\ StubStopped("s2") /\ hist["s2"].read /\ hist["s2"].ret = 2

\* the number a field of decimal digit characters denotes
DigitValue(ch) == CHOOSE d \in 0 .. 9 : DigitChars[d + 1] = ch

IsDigit(ch) == \E d \in 0 .. 9 : DigitChars[d + 1] = ch

\* the two-digit field of str that starts at position p
Field(str, p) == 10 * DigitValue(str[p]) + DigitValue(str[p + 1])

\* C5: for 0 <= s < 360000, displayTime(s) is 8 characters HH:MM:SS of
\* two-digit zero-padded fields, minutes and seconds in 0..59 and hours in
\* 0..99, and hours*3600 + minutes*60 + seconds read back from the string
\* is s; displayTime(2) = "00:00:02" and displayTime(600) = "00:10:00".
C5_DisplayTimeRoundTrip ==
    (pc = "fmt" /\ out # << >> /\ arg < Limit) =>
        /\ Len(out) = 8
        /\ out[3] = ":" /\ out[6] = ":"
        /\ \A p \in {1, 2, 4, 5, 7, 8} : IsDigit(out[p])
        /\ Field(out, 1) \in 0 .. 99
        /\ Field(out, 4) \in 0 .. 59
        /\ Field(out, 7) \in 0 .. 59
        /\ Field(out, 1) * 3600 + Field(out, 4) * 60 + Field(out, 7) = arg
        /\ arg = 2 => out = Lit_00_00_02
        /\ arg = 600 => out = Lit_00_10_00

\* the last input of the range, 359999, rendered "99:59:59"
C5_Witness ==
    /\ pc = "fmt" /\ arg = Limit - 1
    /\ out = <<"9", "9", ":", "5", "9", ":", "5", "9">>

\* C6: in main() every Session is constructed, then stopped exactly once,
\* then read, seconds() is never read on a Session that was not stopped,
\* and the program does not abort on its way to its normal exit; the last
\* part is stated for the runs in which stop() read its clock
C6_OrderAndNormalExit ==
    /\ hist[S].nstops <= 1
    /\ hist[S].read => hist[S].nstops = 1
    /\ pc \in {"L97", "L105", "L113"} => (hist[S].nstops = 1 /\ hist[S].read)
    /\ pc = "aborted" => sess[S].stop_time # TimeClock_stop

\* C7: after any sequence of stop() calls stop_time is what clock.stop()
\* returned at the latest call and seconds() is that value minus
\* start_time; a repeated stop() on a live stub clock leaves the result
\* as it was, and on the live real clock it never lowers the result.
C7_StopOverwrites ==
    [][\A i \in Sessions :
        /\ (Constructed(i)' /\ StopTimeSet(i)') =>
              /\ sess'[i].stop_time = hist'[i].lastRet
              /\ Session_seconds(sess'[i])
                    = hist'[i].lastRet - sess'[i].start_time
              /\ hist'[i].read =>
                    hist'[i].ret = hist'[i].lastRet - sess'[i].start_time
        /\ (StopTimeSet(i) /\ hist'[i].nstops = hist[i].nstops + 1
                /\ alive[i]) =>
              /\ IsStub(sess[i].clock) =>
                    Session_seconds(sess'[i]) = Session_seconds(sess[i])
              /\ sess[i].clock = TheTimeClock =>
                    Session_seconds(sess'[i]) >= Session_seconds(sess[i])]_vars

\* a Session on the real clock stopped twice, the second stop() a second
\* or more after construction, and read
C7_Witness ==
    \E i \in Sessions :
        /\ sess[i].clock = TheTimeClock /\ alive[i]
        /\ hist[i].nstops = 2 /\ hist[i].read /\ hist[i].ret >= 1

\* the clock's readings, start() at construction and stop() at the latest
\* call, did not decrease
ReadingsNonDecreasing(i) ==
    \/ alive[i] /\ sess[i].clock = TheTimeClock
    \/ IsStub(sess[i].clock) /\ StubLength(sess[i].clock) >= 0
    \/ sess[i].clock = TheOtherClock /\ hist[i].lastRet >= sess[i].start_time

\* C8: after stop(), seconds() returns stop_time - start_time unclamped:
\* negative whenever the clock's stop() value is below the start() value
\* captured at construction, non-negative for a clock whose readings never
\* decrease.
C8_SecondsUnclamped ==
    \A i \in Sessions :
        (Constructed(i) /\ StopTimeSet(i)) =>
            /\ hist[i].read => hist[i].ret = sess[i].stop_time - sess[i].start_time
            /\ hist[i].lastRet < sess[i].start_time =>
                  (Session_seconds(sess[i]) < 0
                      /\ (hist[i].read => hist[i].ret < 0))
            /\ ReadingsNonDecreasing(i) =>
                  (Session_seconds(sess[i]) >= 0
                      /\ (hist[i].read => hist[i].ret >= 0))

\* a stopped Session on MockClock<-1> read as -1
C8_Witness ==
    \E i \in Sessions :
        /\ sess[i].clock = TheMockClock(-1) /\ StopTimeSet(i)
        /\ hist[i].read /\ hist[i].ret = -1

\* C9: whenever main() calls stop() on a Session, the Clock the Session
\* refers to is alive.
C9_ClockAliveAtStop ==
    pc \in {"L95", "L103", "L111"} => alive[S]

\* C10 as stated: start_time keeps the value captured at construction,
\* stop() changes only stop_time, seconds() changes nothing, and two
\* seconds() calls with no stop() between them return the same value.
C10_ReadsAgree ==
    [][\A i \in Sessions :
        (Constructed(i) /\ Constructed(i)') =>
            /\ sess'[i].start_time = sess[i].start_time
            /\ sess'[i].clock = sess[i].clock
            /\ hist'[i].nstops = hist[i].nstops => sess'[i] = sess[i]
            /\ (hist[i].read /\ hist'[i].read) => hist'[i].ret = hist[i].ret]_vars

\* C10 amended: as above, the two seconds() calls being made on a Session
\* that has been stopped.
C10_ReadsAgreeOnceStopped ==
    [][\A i \in Sessions :
        (Constructed(i) /\ Constructed(i)') =>
            /\ sess'[i].start_time = sess[i].start_time
            /\ sess'[i].clock = sess[i].clock
            /\ hist'[i].nstops = hist[i].nstops => sess'[i] = sess[i]
            /\ (StopTimeSet(i) /\ hist[i].read /\ hist'[i].read) =>
                  hist'[i].ret = hist[i].ret]_vars

\* a Session constructed on the real clock at second 1, stopped twice and
\* read, its start_time still 1
C10_Witness ==
    \E i \in Sessions :
        /\ sess[i].clock = TheTimeClock /\ sess[i].start_time = 1
        /\ hist[i].nstops = 2 /\ hist[i].read /\ hist[i].ret = 1

TypeOK ==
    /\ now \in Nat
    /\ crashed \in BOOLEAN
    /\ \A i \in Sessions : sess[i].clock \in ClockObjects \cup {NoClock}
    /\ \A i \in Sessions : alive[i] \in BOOLEAN
    /\ \A i \in Sessions : hist[i].nstops \in 0 .. (MaxStops + 1)
    /\ ctor_at \in Nat /\ stop_at \in Nat

====
